---------------------------- MODULE Spec2Model ----------------------------
(***************************************************************************)
(* A model of snobs (src/main.go): an HTTP relay that lists the members    *)
(* of a user group of a remote review platform and adds them as reviewers  *)
(* to a pull request.                                                      *)
(*                                                                         *)
(* Strings that the program takes apart (the request path, the pull        *)
(* request URL) are sequences of tokens: the token "/" is the character    *)
(* '/', every other token is a non-empty run of characters without '/'.    *)
(* Two such tokens are never adjacent in a path of the model, so a token   *)
(* is a whole path segment.                                                *)
(*                                                                         *)
(* Every inbound request runs in a context of its own (net/http starts a   *)
(* goroutine per connection); the contexts share SnobServer.cache and the  *)
(* remote platform.  The remote platform is the environment: each          *)
(* group-membership call answers with any member list or with a failure,   *)
(* so membership may change between any two calls.                         *)
(***************************************************************************)
EXTENDS Naturals, Sequences, FiniteSets, TLC

VARIABLES
    cache,      \* SnobServer.cache: group name -> (users, ok) as a Go map lookup gives them
    ctx,        \* one record per request context: position, locals, response
    config,     \* SnobServer.config: the "intersect" list of the configuration file
    pr,         \* the remote platform's pull request: version and reviewers
    crashed,    \* the Go runtime ended the process (fatal error on a racing map access)
    served,     \* number of requests accepted so far
    pure        \* input and result of a pure function applied on its own

vars == <<cache, ctx, config, pr, crashed, served, pure>>

---------------------------------------------------------------------------
(* Bounds of the model *)

MaxRequests == 3
MaxLen == 4
MaxAssignRequests == 2

(* Program constants *)

StatusOK == 200
StatusBadRequest == 400
StatusInternalServerError == 500
SplitLimit == 2

\* the request contexts that run at the same time
Workers == {"w1", "w2"}

Users == {"alice", "bob", "svc"}

\* config "user": the service's own account
stashUser == "svc"

\* author of the pull request on the remote platform
PRAuthor == "bob"

\* the values config "intersect" may hold
IntersectConfigs == {<<>>, <<"snobs">>}

GroupNames == {"", "teamX", "snobs", "leads", "a"}

\* member lists the remote platform may answer with
MemberLists == {<<>>, <<"alice", "bob", "svc">>, <<"bob", "alice">>}

\* the outcome of one call of the remote membership API
UpstreamResults ==
    {[err |-> TRUE, names |-> <<>>]} \cup {[err |-> FALSE, names |-> l] : l \in MemberLists}

---------------------------------------------------------------------------
(* Request paths *)

PullRequestURL ==
    <<"https:", "/", "/", "stash", "/", "projects", "/", "FOO", "/", "repos", "/", "bar",
      "/", "pull-requests", "/", "42">>

RootPath == <<"/">>
ListPath == <<"/", "teamX">>
AssignPath == <<"/", "teamX", "/">> \o PullRequestURL
ABCPath == <<"/", "a", "/", "b", "/", "c">>

\* the paths requested
Paths == {RootPath, ListPath, AssignPath, ABCPath}

\* the string a slash-free piece of a path stands for: "" or its only token
Str(seg) == IF seg = <<>> THEN "" ELSE seg[1]

RECURSIVE TrimLeft(_)
TrimLeft(s) == IF s # <<>> /\ Head(s) = "/" THEN TrimLeft(Tail(s)) ELSE s

RECURSIVE TrimRight(_)
TrimRight(s) ==
    IF s # <<>> /\ s[Len(s)] = "/" THEN TrimRight(SubSeq(s, 1, Len(s) - 1)) ELSE s

\* strings.Trim(s, "/")
Trim(s) == TrimRight(TrimLeft(s))

\* strings.Index(s, "/"), 1-based; 0 when there is none
RECURSIVE Index(_)
Index(s) ==
    IF s = <<>> THEN 0
    ELSE IF Head(s) = "/" THEN 1
    ELSE LET i == Index(Tail(s)) IN IF i = 0 THEN 0 ELSE i + 1

\* strings.SplitN(s, "/", n) for n >= 1
RECURSIVE SplitN(_, _)
SplitN(s, n) ==
    LET i == Index(s)
    IN  IF n = 1 \/ i = 0 THEN <<s>>
        ELSE <<SubSeq(s, 1, i - 1)>> \o SplitN(SubSeq(s, i + 1, Len(s)), n - 1)

\* ServeHTTP: uriParts
uriParts(path) == SplitN(Trim(path), SplitLimit)

\* ServeHTTP: the switch on len(uriParts)
Dispatch(path) ==
    CASE Len(uriParts(path)) = 2 -> "assign"
      [] Len(uriParts(path)) = 1 -> "list"
      [] OTHER -> "usage"

---------------------------------------------------------------------------
(* reStashURL *)

Schemes == {"http:", "https:"}

\* a variant of Discriminators without the personal repositories
DiscriminatorsProjectsOnly == {"projects"}

Discriminators == {"users", "projects"}

\* the longest prefix of a token matched by \d+ ("" when the token starts with no digit)
DigitsPrefix(tok) ==
    CASE tok = "42" -> "42"
      [] tok = "5" -> "5"
      [] tok = "7abc" -> "7"
      [] OTHER -> ""

\* (users|projects)/([^/]+)/repos/([^/]+)/pull-requests/(\d+) matches at token k,
\* right after a "/"
TailMatchesAt(s, k) ==
    /\ k >= 2 /\ k + 10 <= Len(s)
    /\ s[k - 1] = "/"
    /\ s[k] \in Discriminators
    /\ s[k + 1] = "/" /\ s[k + 2] # "/" /\ s[k + 3] = "/"
    /\ s[k + 4] = "repos"
    /\ s[k + 5] = "/" /\ s[k + 6] # "/" /\ s[k + 7] = "/"
    /\ s[k + 8] = "pull-requests"
    /\ s[k + 9] = "/"
    /\ DigitsPrefix(s[k + 10]) # ""

\* https?:// starts at token i
SchemeAt(s, i) ==
    /\ i >= 1 /\ i + 2 <= Len(s)
    /\ s[i] \in Schemes /\ s[i + 1] = "/" /\ s[i + 2] = "/"

\* the pairs (start of the scheme, start of the discriminator) of all matches
MatchPairs(s) ==
    {p \in {i \in 1 .. Len(s) : SchemeAt(s, i)} \X {k \in 1 .. Len(s) : TailMatchesAt(s, k)} :
        p[2] - 1 >= p[1] + 3}

Min(S) == CHOOSE x \in S : \A y \in S : x <= y
Max(S) == CHOOSE x \in S : \A y \in S : x >= y

\* reStashURL.FindStringSubmatch(s): <<>> when nothing matches, else the match and
\* its five groups (element i + 1 is Go's matches[i]); the leftmost match, its .*
\* as long as possible
FindStringSubmatch(s) ==
    IF MatchPairs(s) = {} THEN <<>>
    ELSE LET i == Min({p[1] : p \in MatchPairs(s)})
             k == Max({p[2] : p \in {q \in MatchPairs(s) : q[1] = i}})
         IN  << SubSeq(s, i, k + 9) \o <<DigitsPrefix(s[k + 10])>>,
                SubSeq(s, i, k - 1),
                s[k], s[k + 2], s[k + 6], DigitsPrefix(s[k + 10]) >>

---------------------------------------------------------------------------
(* Pure functions *)

\* a variant of Ignored that compares with the first of ignoreUsers only
IgnoredFirstOnly(user, ignoreUsers) == ignoreUsers # <<>> /\ Head(ignoreUsers) = user

\* the inner loop of getReviewers: user is one of ignoreUsers
RECURSIVE Ignored(_, _)
Ignored(user, ignoreUsers) ==
    IF ignoreUsers = <<>> THEN FALSE
    ELSE IF Head(ignoreUsers) = user THEN TRUE
    ELSE Ignored(user, Tail(ignoreUsers))

\* getReviewers(users, ignoreUsers): the names of the reviewers built, in order
RECURSIVE getReviewers(_, _)
getReviewers(users, ignoreUsers) ==
    IF users = <<>> THEN <<>>
    ELSE IF Ignored(Head(users), ignoreUsers)
         THEN getReviewers(Tail(users), ignoreUsers)
         ELSE <<Head(users)>> \o getReviewers(Tail(users), ignoreUsers)

\* whether item occurs in seq
RECURSIVE Contains(_, _)
Contains(seq, item) ==
    IF seq = <<>> THEN FALSE
    ELSE IF Head(seq) = item THEN TRUE
    ELSE Contains(Tail(seq), item)

\* a variant of InnerLoop that adds the item once per occurrence in other
RECURSIVE InnerLoopRepeating(_, _, _)
InnerLoopRepeating(origItem, other, intersection) ==
    IF other = <<>> THEN intersection
    ELSE InnerLoopRepeating(
            origItem, Tail(other),
            IF origItem = Head(other)
            THEN Append(intersection, origItem)
            ELSE intersection)

\* getIntersection: the loop over other for one item of original, with the
\* intersection built so far
RECURSIVE InnerLoop(_, _, _)
InnerLoop(origItem, other, intersection) ==
    IF other = <<>> THEN intersection
    ELSE InnerLoop(
            origItem, Tail(other),
            IF origItem = Head(other) /\ ~Contains(intersection, origItem)
            THEN Append(intersection, origItem)
            ELSE intersection)

\* getIntersection: the loop over original
RECURSIVE OuterLoop(_, _, _)
OuterLoop(original, other, intersection) ==
    IF original = <<>> THEN intersection
    ELSE OuterLoop(Tail(original), other, InnerLoop(Head(original), other, intersection))

\* a variant of getIntersection that takes an empty other for "no restriction"
getIntersectionOrOriginal(original, other) ==
    IF other = <<>> THEN original ELSE OuterLoop(original, other, <<>>)

getIntersection(original, other) == OuterLoop(original, other, <<>>)

\* a variant of GetUsers that returns the error of a failed call
GetUsersPropagating(res) ==
    IF res.err THEN [names |-> <<>>, err |-> TRUE]
    ELSE [names |-> res.names, err |-> FALSE]

\* GetUsers(group), given the outcome of its call of the membership API: the names
\* and the error it returns
GetUsers(res) ==
    IF res.err THEN [names |-> <<>>, err |-> FALSE]
    ELSE [names |-> res.names, err |-> FALSE]

\* AddReviewers: the payload of the update
Payload(pullRequest, version, users, author) ==
    [id |-> pullRequest, version |-> version,
     reviewers |-> getReviewers(users, <<author, stashUser>>)]

\* GetPullRequestInfo: int64(info.Version).  The platform's versions are whole
\* numbers far below 2^53, which the float64 of ResponsePullRequest holds exactly
Int64(version) == version

---------------------------------------------------------------------------
(* The cache: a Go map; a lookup gives the value and whether the key is present *)

NoEntry == [ok |-> FALSE, users |-> <<>>]

\* a variant of Lookup that never finds the key
LookupMiss(c, usergroup) == NoEntry

\* users, ok := server.cache[usergroup]
Lookup(c, usergroup) == c[usergroup]

\* server.cache[usergroup] = users
Store(c, usergroup, users) == [c EXCEPT ![usergroup] = [ok |-> TRUE, users |-> users]]

\* a variant of Storable that stores an empty result too
StorableAlways(users) == TRUE

\* handleGetUsers: whether the users fetched are stored
Storable(users) == Len(users) > 0

---------------------------------------------------------------------------
(* Request contexts *)

NoPayload == [id |-> "", version |-> 0, reviewers |-> <<>>]

IdleCtx ==
    [pc |-> "idle", path |-> <<>>, mode |-> "none", usergroup |-> "",
     pullRequestURL |-> <<>>, users |-> <<>>, targetUsers |-> <<>>,
     intersectUsers |-> <<>>, i |-> 0, pullRequest |-> "", author |-> "", version |-> 0,
     payload |-> NoPayload, wroteHeader |-> FALSE, status |-> 0, body |-> "",
     \* history of the request, read by the properties only: the membership calls
     \* issued (all, and those for usergroup), whether one failed, the cache entry
     \* of usergroup when the request arrived, the reads and updates of the pull
     \* request, the version the platform served, whether the update was applied
     calls |-> 0, groupCalls |-> 0, failed |-> FALSE, prior |-> NoEntry,
     gets |-> 0, puts |-> 0, readVersion |-> 0, applied |-> FALSE,
     \* the steps of an assign-reviewers request in the order taken, and the member
     \* lists GetUsers returned to it, one per call (kept while the handler runs)
     log |-> <<>>, answers |-> <<>>]

\* one step of an assign-reviewers request, as one string: a membership call is the
\* name of its group; the match of the URL, the read and the update of the pull
\* request are their names, marked when they failed
Event(op, arg, ok) ==
    CASE op = "members" -> arg
      [] ok -> op
      [] op = "parse" -> "parse failed"
      [] op = "get" -> "get failed"
      [] OTHER -> "put failed"

\* http.ResponseWriter: the first WriteHeader decides the status, later ones are ignored
WriteHeader(c, status) ==
    IF c.wroteHeader THEN c ELSE [c EXCEPT !.wroteHeader = TRUE, !.status = status]

\* the handler returns: its locals are gone, the response and the history stay
Return(c) ==
    [c EXCEPT !.pc = "done", !.targetUsers = <<>>, !.intersectUsers = <<>>, !.i = 0,
              !.author = "", !.version = 0, !.answers = <<>>]

\* http.Error(response, body, status), ending the handler
Error(c, body, status) == Return([WriteHeader(c, status) EXCEPT !.body = body])

\* handleGetUsers, lines 211-216: the first Write of the encoder sends the header with
\* 200; writeOK is whether the write to the connection succeeds
Encode(c, writeOK) ==
    LET written == [WriteHeader(c, StatusOK) EXCEPT !.body = "users"]
        failed == IF writeOK THEN written
                  ELSE WriteHeader(written, StatusInternalServerError)
    IN  Return(WriteHeader(failed, StatusOK))

\* ServeHTTP up to the handler's first call
Start(path, c) ==
    LET parts == uriParts(path)
        begun == [IdleCtx EXCEPT !.path = path, !.mode = Dispatch(path)]
    IN  CASE Dispatch(path) = "assign" ->
                [begun EXCEPT !.pc = "ar_target", !.usergroup = Str(parts[1]),
                              !.pullRequestURL = parts[2],
                              !.prior = c[Str(parts[1])]]
          [] Dispatch(path) = "list" ->
                [begun EXCEPT !.pc = "lu_read", !.usergroup = Str(parts[1]),
                              !.prior = c[Str(parts[1])]]
          [] OTHER -> Error(begun, "usage", StatusBadRequest)

---------------------------------------------------------------------------
(* The handlers' branches *)

\* handleGetUsers, lines 197-198 and 211-216: after the lookup gave e
AfterLookup(c, e, writeOK) ==
    IF e.ok THEN Encode([c EXCEPT !.users = e.users], writeOK)
    ELSE [c EXCEPT !.pc = "lu_fetch"]

\* handleGetUsers, lines 200-216: after GetUsers returned r
AfterGetUsers(c, r, writeOK) ==
    IF r.err THEN Error(c, "error", StatusInternalServerError)
    ELSE IF Storable(r.names) THEN [c EXCEPT !.users = r.names, !.pc = "lu_write"]
    ELSE Encode([c EXCEPT !.users = r.names], writeOK)

\* a variant of AfterTarget that takes a target group without members for an error
AfterTargetRejectingEmpty(c, r) ==
    IF r.err \/ r.names = <<>> THEN Error(c, "error", StatusBadRequest)
    ELSE [c EXCEPT !.targetUsers = r.names, !.i = 1, !.pc = "ar_intersect"]

\* handleAddReviewers, lines 167-171, and GetUsersIntersection, lines 323-326: after
\* GetUsers returned r for the target group
AfterTarget(c, r) ==
    IF r.err THEN Error(c, "error", StatusBadRequest)
    ELSE [c EXCEPT !.targetUsers = r.names, !.i = 1, !.pc = "ar_intersect"]

\* a variant of AfterIntersect that keeps the members of the last group only
AfterIntersectKeepLast(c, r) ==
    IF r.err THEN Error(c, "error", StatusBadRequest)
    ELSE [c EXCEPT !.intersectUsers = r.names, !.i = @ + 1]

\* GetUsersIntersection, lines 333-345: after GetUsers returned r for an intersect group
AfterIntersect(c, r) ==
    IF r.err THEN Error(c, "error", StatusBadRequest)
    ELSE [c EXCEPT !.intersectUsers = @ \o r.names, !.i = @ + 1]

\* a variant of AfterGroups that goes on to the pull request whatever the URL
AfterGroupsIgnoringURL(c) ==
    LET users == getIntersection(c.targetUsers, c.intersectUsers)
        matches == FindStringSubmatch(c.pullRequestURL)
    IN  [c EXCEPT !.users = users,
                  !.pullRequest = IF Len(matches) = 0 THEN "" ELSE matches[6],
                  !.pc = "ar_getinfo"]

\* GetUsersIntersection, line 347, and handleAddReviewers, lines 173-183
AfterGroups(c) ==
    LET users == getIntersection(c.targetUsers, c.intersectUsers)
        matches == FindStringSubmatch(c.pullRequestURL)
    IN  IF Len(matches) = 0
        THEN Error([c EXCEPT !.users = users], "wrong url", StatusBadRequest)
        ELSE [c EXCEPT !.users = users, !.pullRequest = matches[6], !.pc = "ar_getinfo"]

\* a variant of AfterGetInfo that takes a failed read for a fault of the request
AfterGetInfoBadRequest(c, err, author, version) ==
    IF err THEN Error(c, "error", StatusBadRequest)
    ELSE [c EXCEPT !.author = author, !.version = Int64(version), !.pc = "ar_put"]

\* AddReviewers, lines 241-257, and handleAddReviewers, lines 185-189: after
\* GetPullRequestInfo returned author and version, or failed
AfterGetInfo(c, err, author, version) ==
    IF err THEN Error(c, "error", StatusInternalServerError)
    ELSE [c EXCEPT !.author = author, !.version = Int64(version), !.pc = "ar_put"]

\* a variant of AfterPut that answers with success whatever the update returned
AfterPutIgnoringError(c, err) == Error(c, "success", StatusOK)

\* a variant of AfterPut that reads the pull request again after a failed update
AfterPutRetrying(c, err) ==
    IF err THEN [c EXCEPT !.pc = "ar_getinfo"]
    ELSE Error(c, "success", StatusOK)

\* AddReviewers, line 264, and handleAddReviewers, lines 185-191: after the update
AfterPut(c, err) ==
    IF err THEN Error(c, "error", StatusInternalServerError)
    ELSE Error(c, "success", StatusOK)

---------------------------------------------------------------------------
(* The remote platform.  It is outside the program: its pull request and its    *)
(* check of the version are taken from the platform's contract (an update must *)
(* echo the version last read, or it is rejected), and the API client is taken *)
(* to return an error for a rejected update and for a platform it cannot reach *)

\* the pull request the platform holds
RemotePullRequest == "42"

\* the platform accepts an update that echoes the version it holds
Accepts(p, payload) == payload.id = RemotePullRequest /\ payload.version = p.version

\* the pull request after an accepted update
Updated(p, payload) == [version |-> p.version + 1, reviewers |-> payload.reviewers]

---------------------------------------------------------------------------
(* State machine *)

\* the parts of a pull request URL handed to the URL pattern on its own
NoURL ==
    [shape |-> "none", lead |-> <<>>, scheme |-> "", disc |-> "", project |-> "",
     repository |-> "", id |-> "", trail |-> <<>>]

PureIdle ==
    [fn |-> "none", users |-> <<>>, author |-> "", other |-> <<>>, group |-> "",
     res |-> [err |-> FALSE, names |-> <<>>], url |-> NoURL,
     out |-> <<>>, err |-> FALSE, done |-> FALSE]

\* NewSnobServer: an empty cache, the configuration loaded
Init ==
    /\ cache = [g \in GroupNames |-> NoEntry]
    /\ ctx = [w \in Workers |-> IdleCtx]
    /\ config \in [intersect : IntersectConfigs]
    /\ pr = [version |-> 0, reviewers |-> <<>>]
    /\ crashed = FALSE
    /\ served = 0
    /\ pure = PureIdle

\* a request arrives on a free context: ServeHTTP
Request(w) ==
    /\ ~crashed
    /\ served < MaxRequests
    /\ ctx[w].pc \in {"idle", "done"}
    /\ \E path \in Paths : ctx' = [ctx EXCEPT ![w] = Start(path, cache)]
    /\ served' = served + 1
    /\ UNCHANGED <<cache, config, pr, crashed, pure>>

\* handleGetUsers, lines 197-198: the map read; on a hit the users are encoded
EndLookup(w) ==
    /\ ~crashed
    /\ ctx[w].pc = "lu_read"
    /\ \E writeOK \in BOOLEAN :
          ctx' = [ctx EXCEPT ![w] = AfterLookup(@, Lookup(cache, @.usergroup), writeOK)]
    /\ UNCHANGED <<cache, config, pr, crashed, served, pure>>

\* handleGetUsers, lines 200-208: GetUsers calls the platform
FetchUsers(w) ==
    /\ ~crashed
    /\ ctx[w].pc = "lu_fetch"
    /\ \E res \in UpstreamResults, writeOK \in BOOLEAN :
          ctx' = [ctx EXCEPT ![w] =
                    AfterGetUsers(
                        [@ EXCEPT !.calls = @ + 1, !.groupCalls = @ + 1,
                                  !.failed = @ \/ res.err],
                        GetUsers(res), writeOK)]
    /\ UNCHANGED <<cache, config, pr, crashed, served, pure>>

\* handleGetUsers, lines 207-216: the map write, then the users are encoded
EndStore(w) ==
    /\ ~crashed
    /\ ctx[w].pc = "lu_write"
    /\ cache' = Store(cache, ctx[w].usergroup, ctx[w].users)
    /\ \E writeOK \in BOOLEAN : ctx' = [ctx EXCEPT ![w] = Encode(@, writeOK)]
    /\ UNCHANGED <<config, pr, crashed, served, pure>>

\* the context is at a statement that accesses the map: nothing orders it with the
\* other contexts' accesses
InCache(w) == ctx[w].pc \in {"lu_read", "lu_write"}

Writing(w) == ctx[w].pc = "lu_write"

Racing(w1, w2) == w1 # w2 /\ InCache(w1) /\ InCache(w2) /\ (Writing(w1) \/ Writing(w2))

\* the runtime finds a map access racing with a map write and ends the process
\* ("fatal error: concurrent map writes", "concurrent map read and map write")
Fatal ==
    /\ ~crashed
    /\ \E w1, w2 \in Workers : Racing(w1, w2)
    /\ crashed' = TRUE
    /\ UNCHANGED <<cache, ctx, config, pr, served, pure>>

\* a variant of FetchTarget that takes the members of a cached group from the cache
FetchTargetCached(w) ==
    /\ ~crashed
    /\ ctx[w].pc = "ar_target"
    /\ \E res \in UpstreamResults :
          LET e == Lookup(cache, ctx[w].usergroup)
          IN  ctx' = [ctx EXCEPT ![w] =
                        IF e.ok
                        THEN AfterTarget([@ EXCEPT !.answers = Append(@, e.users)],
                                         [names |-> e.users, err |-> FALSE])
                        ELSE AfterTarget(
                                [@ EXCEPT !.calls = @ + 1, !.groupCalls = @ + 1,
                                          !.failed = @ \/ res.err,
                                          !.log = Append(@, Event("members",
                                                                  ctx[w].usergroup, TRUE)),
                                          !.answers = Append(@, GetUsers(res).names)],
                                GetUsers(res))]
    /\ UNCHANGED <<cache, config, pr, crashed, served, pure>>

\* GetUsersIntersection, lines 323-326: GetUsers(targetGroup)
FetchTarget(w) ==
    /\ ~crashed
    /\ ctx[w].pc = "ar_target"
    /\ \E res \in UpstreamResults :
          ctx' = [ctx EXCEPT ![w] =
                    AfterTarget(
                        [@ EXCEPT !.calls = @ + 1, !.groupCalls = @ + 1,
                                  !.failed = @ \/ res.err,
                                  !.log = Append(@, Event("members", ctx[w].usergroup, TRUE)),
                                  !.answers = Append(@, GetUsers(res).names)],
                        GetUsers(res))]
    /\ UNCHANGED <<cache, config, pr, crashed, served, pure>>

\* GetUsersIntersection, lines 333-345: GetUsers(group) for the next intersect group
FetchIntersect(w) ==
    /\ ~crashed
    /\ ctx[w].pc = "ar_intersect"
    /\ ctx[w].i <= Len(config.intersect)
    /\ \E res \in UpstreamResults :
          ctx' = [ctx EXCEPT ![w] =
                    AfterIntersect(
                        [@ EXCEPT !.calls = @ + 1,
                                  !.groupCalls =
                                      IF config.intersect[ctx[w].i] = ctx[w].usergroup
                                      THEN @ + 1 ELSE @,
                                  !.failed = @ \/ res.err,
                                  !.log = Append(@, Event("members",
                                                          config.intersect[ctx[w].i], TRUE)),
                                  !.answers = Append(@, GetUsers(res).names)],
                        GetUsers(res))]
    /\ UNCHANGED <<cache, config, pr, crashed, served, pure>>

\* GetUsersIntersection, lines 347-353, and handleAddReviewers, lines 173-183
ParseURL(w) ==
    /\ ~crashed
    /\ ctx[w].pc = "ar_intersect"
    /\ ctx[w].i > Len(config.intersect)
    /\ ctx' = [ctx EXCEPT ![w] =
                    AfterGroups(
                        [@ EXCEPT !.log = Append(@, Event("parse", "",
                                        FindStringSubmatch(ctx[w].pullRequestURL) # <<>>))])]
    /\ UNCHANGED <<cache, config, pr, crashed, served, pure>>

\* AddReviewers, lines 241-246: GetPullRequestInfo reads the pull request; the read
\* fails when the platform cannot be reached
GetPullRequestInfo(w) ==
    /\ ~crashed
    /\ ctx[w].pc = "ar_getinfo"
    /\ \E reached \in BOOLEAN :
          LET err == ~reached \/ ctx[w].pullRequest # RemotePullRequest
          IN  ctx' = [ctx EXCEPT ![w] =
                        AfterGetInfo(
                            [@ EXCEPT !.gets = @ + 1, !.readVersion = pr.version,
                                      !.log = Append(@, Event("get", ctx[w].pullRequest,
                                                              ~err))],
                            err, PRAuthor, pr.version)]
    /\ UNCHANGED <<cache, config, pr, crashed, served, pure>>

\* AddReviewers, lines 248-264: the update is sent; the platform applies it when it
\* is reached and accepts the version
Put(w) ==
    /\ ~crashed
    /\ ctx[w].pc = "ar_put"
    /\ \E reached \in BOOLEAN :
          LET c == ctx[w]
              payload == Payload(c.pullRequest, c.version, c.users, c.author)
              ok == reached /\ Accepts(pr, payload)
          IN  /\ pr' = IF ok THEN Updated(pr, payload) ELSE pr
              /\ ctx' = [ctx EXCEPT ![w] =
                            AfterPut(
                                [c EXCEPT !.payload = payload, !.puts = @ + 1,
                                          !.applied = ok,
                                          !.log = Append(@, Event("put", c.pullRequest,
                                                                  ok))],
                                ~ok)]
    /\ UNCHANGED <<cache, config, crashed, served, pure>>

Next ==
    \/ Fatal
    \/ \E w \in Workers :
        \/ Request(w)
        \/ EndLookup(w)
        \/ FetchUsers(w)
        \/ EndStore(w)
        \/ FetchTarget(w)
        \/ FetchIntersect(w)
        \/ ParseURL(w)
        \/ GetPullRequestInfo(w)
        \/ Put(w)

Spec == Init /\ [][Next]_vars

---------------------------------------------------------------------------
(* Assign-reviewers requests on their own, with two intersect groups configured *)

InitAssign ==
    /\ cache = [g \in GroupNames |-> NoEntry]
    /\ ctx = [w \in Workers |-> IdleCtx]
    /\ config = [intersect |-> <<"snobs", "leads">>]
    /\ pr = [version |-> 0, reviewers |-> <<>>]
    /\ crashed = FALSE
    /\ served = 0
    /\ pure = PureIdle

AssignPaths == {AssignPath, ABCPath}

\* a request of two segments or more arrives on a free context: ServeHTTP
RequestAssign(w) ==
    /\ ~crashed
    /\ served < MaxAssignRequests
    /\ ctx[w].pc \in {"idle", "done"}
    /\ \E path \in AssignPaths : ctx' = [ctx EXCEPT ![w] = Start(path, cache)]
    /\ served' = served + 1
    /\ UNCHANGED <<cache, config, pr, crashed, pure>>

NextAssign ==
    \E w \in Workers :
        \/ RequestAssign(w)
        \/ FetchTarget(w)
        \/ FetchIntersect(w)
        \/ ParseURL(w)
        \/ GetPullRequestInfo(w)
        \/ Put(w)

SpecAssign == InitAssign /\ [][NextAssign]_vars

---------------------------------------------------------------------------
(* The pure functions on their own: the inputs are drawn in the initial state *)

BoundedSeq(S, n) == UNION {[1 .. k -> S] : k \in 0 .. n}

PayloadInputs ==
    {[PureIdle EXCEPT !.fn = "payload", !.users = u, !.author = a] :
        u \in BoundedSeq(Users, MaxLen), a \in Users}

GetUsersInputs ==
    {[PureIdle EXCEPT !.fn = "getusers", !.group = g, !.res = r] :
        g \in GroupNames, r \in UpstreamResults}

IntersectionInputs ==
    {[PureIdle EXCEPT !.fn = "intersect", !.users = u, !.other = o] :
        u \in BoundedSeq(Users, MaxLen), o \in BoundedSeq(Users, MaxLen)}

\* the texts handed to the URL pattern: a pull request URL, one cut before
\* /pull-requests/<id>, one with nothing between the scheme and the discriminator;
\* with text before and after, other schemes and discriminators, an id of letters
URLs ==
    [shape : {"full", "nosuffix", "nohost"}, lead : {<<>>, <<"see", "/">>},
     scheme : {"http:", "https:", "ftp:"}, disc : {"users", "projects", "scm"},
     project : {"FOO", "~bob"}, repository : {"bar"}, id : {"42", "5", "abc"},
     trail : {<<>>, <<"/", "diff">>}]

URLText(u) ==
    LET host == IF u.shape = "nohost" THEN <<>> ELSE <<"stash", "/">>
        suffix == IF u.shape = "nosuffix" THEN <<>> ELSE <<"/", "pull-requests", "/", u.id>>
    IN  u.lead \o <<u.scheme, "/", "/">> \o host
            \o <<u.disc, "/", u.project, "/", "repos", "/", u.repository>>
            \o suffix \o u.trail

ParseInputs == {[PureIdle EXCEPT !.fn = "parse", !.url = u] : u \in URLs}

PureInit ==
    /\ cache = [g \in GroupNames |-> NoEntry]
    /\ ctx = [w \in Workers |-> IdleCtx]
    /\ config = [intersect |-> <<>>]
    /\ pr = [version |-> 0, reviewers |-> <<>>]
    /\ crashed = FALSE
    /\ served = 0
    /\ pure \in PayloadInputs \cup GetUsersInputs \cup IntersectionInputs \cup ParseInputs

\* AddReviewers, lines 248-257: the reviewers of the payload
ApplyPayload ==
    /\ pure.fn = "payload" /\ ~pure.done
    /\ pure' = [pure EXCEPT
                    !.done = TRUE,
                    !.out = Payload(RemotePullRequest, 0, pure.users, pure.author).reviewers]
    /\ UNCHANGED <<cache, ctx, config, pr, crashed, served>>

\* GetUsers, lines 219-235, for one outcome of its call
ApplyGetUsers ==
    /\ pure.fn = "getusers" /\ ~pure.done
    /\ pure' = [pure EXCEPT !.done = TRUE, !.out = GetUsers(pure.res).names,
                            !.err = GetUsers(pure.res).err]
    /\ UNCHANGED <<cache, ctx, config, pr, crashed, served>>

\* getIntersection, lines 356-377
ApplyIntersection ==
    /\ pure.fn = "intersect" /\ ~pure.done
    /\ pure' = [pure EXCEPT !.done = TRUE, !.out = getIntersection(pure.users, pure.other)]
    /\ UNCHANGED <<cache, ctx, config, pr, crashed, served>>

\* handleAddReviewers, line 173: reStashURL.FindStringSubmatch
ApplyParse ==
    /\ pure.fn = "parse" /\ ~pure.done
    /\ pure' = [pure EXCEPT !.done = TRUE, !.out = FindStringSubmatch(URLText(pure.url))]
    /\ UNCHANGED <<cache, ctx, config, pr, crashed, served>>

PureNext ==
    \/ ApplyPayload
    \/ ApplyGetUsers
    \/ ApplyIntersection
    \/ ApplyParse

SpecPure == PureInit /\ [][PureNext]_vars

---------------------------------------------------------------------------
(* Properties *)

ListDone(w) == ctx[w].mode = "list" /\ ctx[w].pc = "done"

AssignDone(w) == ctx[w].mode = "assign" /\ ctx[w].pc = "done"

\* C1 as stated: once a resolution of group G has returned a non-empty sequence
\* (G is then in the cache), a later request that resolves G, in either mode,
\* issues no membership call for G and returns the same sequence.
C1_ResolvedOnceNeverCalledAgain ==
    \A w \in Workers :
        ctx[w].prior.ok =>
            /\ ctx[w].groupCalls = 0
            /\ (ListDone(w) => ctx[w].users = ctx[w].prior.users)

\* C1, amended: a list-users request that arrives when its group is cached ends at
\* the map read: it issues no membership call and answers 200 with the sequence
\* the cache holds for the group.
C1_CachedGroupServedFromCache ==
    [][\A w \in Workers :
          (/\ ctx[w].mode = "list" /\ ctx[w].prior.ok
           /\ ctx[w].pc = "lu_read" /\ ctx'[w].pc # "lu_read")
          => /\ ctx'[w].pc = "done"
             /\ ctx'[w].calls = 0
             /\ ctx'[w].status = StatusOK
             /\ ctx'[w].users = cache[ctx[w].usergroup].users]_vars

\* C1: a list-users request found its group cached and answered from the cache
C1_Witness ==
    \E w \in Workers :
        /\ ListDone(w) /\ ctx[w].prior.ok /\ ctx[w].calls = 0
        /\ ctx[w].users = <<"alice", "bob", "svc">>

\* the number of pieces between the slashes of a path ("/" has none)
SegmentCount(path) ==
    IF Trim(path) = <<>> THEN 0 ELSE Len(SplitN(Trim(path), Len(path) + 1))

\* a group segment followed by a URL with a scheme
GroupAndURL(path) ==
    LET p == Trim(path)
    IN  Len(p) >= 3 /\ p[1] # "/" /\ p[2] = "/" /\ p[3] \in Schemes

\* C2 as stated: a path of one segment goes to list-users, a group followed by a
\* pull-request URL goes to assign-reviewers, and any other path ("/", "/a/b/c") is
\* answered 400 with the usage hint, no handler called.
C2_RoutingByPathShape ==
    \A w \in Workers :
        ctx[w].pc # "idle" =>
            CASE SegmentCount(ctx[w].path) = 1 -> ctx[w].mode = "list"
              [] GroupAndURL(ctx[w].path) -> ctx[w].mode = "assign"
              [] OTHER -> /\ ctx[w].mode = "usage" /\ ctx[w].pc = "done"
                          /\ ctx[w].status = StatusBadRequest /\ ctx[w].body = "usage"

\* C3 as stated: a cache entry, once written, keeps its value and is never removed.
C3_CacheEntriesImmutable ==
    [][\A g \in GroupNames : cache[g].ok => cache'[g] = cache[g]]_vars

\* the two contexts' updates of the pull request were both sent, from the same
\* version read
SameVersionRead(w1, w2) ==
    /\ w1 # w2
    /\ ctx[w1].mode = "assign" /\ ctx[w2].mode = "assign"
    /\ ctx[w1].puts = 1 /\ ctx[w2].puts = 1
    /\ ctx[w1].readVersion = ctx[w2].readVersion

\* C4: of two assign-reviewers requests that read the same version of the pull
\* request at most one has its update applied; the other is answered 500 after its
\* only update call, and the pull request holds the reviewers of the applied update.
C4_StaleWriterRejected ==
    \A w1, w2 \in Workers :
        SameVersionRead(w1, w2) /\ ctx[w1].applied =>
            /\ ~ctx[w2].applied
            /\ ctx[w2].pc = "done" /\ ctx[w2].status = StatusInternalServerError
            /\ pr.version = ctx[w1].readVersion + 1
            /\ pr.reviewers = ctx[w1].payload.reviewers

\* C4: two requests read the same version and sent different reviewer lists; one
\* update was applied, the other request failed
C4_Witness ==
    \E w1, w2 \in Workers :
        /\ SameVersionRead(w1, w2) /\ ctx[w1].applied
        /\ ctx[w1].payload.reviewers = <<"alice">>
        /\ ctx[w2].payload.reviewers = <<>>
        /\ ctx[w2].status = StatusInternalServerError
        /\ pr.reviewers = <<"alice">>

\* C5 as stated: no two contexts are at a cache access at the same time when one of
\* them writes.
C5_CacheAccessExclusive == \A w1, w2 \in Workers : ~Racing(w1, w2)

\* C6: the reviewers of the update payload are the candidates without the author of
\* the pull request and without the service's own account, the others in their
\* order; candidates alice, bob, svc with author bob give alice alone.
C6_ReviewersExcludeAuthorAndSelf ==
    LET Kept(user) == user \notin {pure.author, stashUser}
    IN  pure.fn = "payload" /\ pure.done =>
            /\ pure.out = SelectSeq(pure.users, Kept)
            /\ (pure.users = <<"alice", "bob", "svc">> /\ pure.author = "bob"
                    => pure.out = <<"alice">>)

\* C6: the payload was built from alice, bob, svc for a pull request of bob
C6_Witness ==
    /\ pure.fn = "payload" /\ pure.done
    /\ pure.users = <<"alice", "bob", "svc">> /\ pure.author = "bob"
    /\ pure.out = <<"alice">>

\* C7: a request sends at most one update; the update comes after the one read of
\* the pull request and carries the version the platform served to that read; a
\* request whose update was not applied has ended with 500.
C7_OneUpdateWithReadVersion ==
    \A w \in Workers :
        /\ ctx[w].puts <= 1
        /\ ctx[w].puts = 1 =>
              /\ ctx[w].gets = 1
              /\ ctx[w].payload.version = ctx[w].readVersion
              /\ ctx[w].payload.id = ctx[w].pullRequest
              /\ ctx[w].pc = "done"
              /\ (~ctx[w].applied => ctx[w].status = StatusInternalServerError)

\* C7: an update that carried version 1, read after an earlier update was applied,
\* was not applied and the request ended with 500
C7_Witness ==
    \E w \in Workers :
        /\ ctx[w].puts = 1 /\ ctx[w].readVersion = 1 /\ ctx[w].payload.version = 1
        /\ ~ctx[w].applied /\ ctx[w].status = StatusInternalServerError

\* a list-users request returns an empty sequence in this step
ReturnsEmpty(w) ==
    /\ ctx[w].mode = "list" /\ ctx[w].pc # "done"
    /\ ctx'[w].pc = "done" /\ ctx'[w].users = <<>>

\* C8 as stated: the cache never maps a group to the empty sequence, and when a
\* resolution of G has returned empty the next resolution of G calls the platform:
\* G is not in the cache when the empty result is returned.
C8_EmptyThenCalledAgain ==
    [][/\ \A g \in GroupNames : cache'[g].ok => cache'[g].users # <<>>
       /\ \A w \in Workers : ReturnsEmpty(w) => ~cache'[ctx[w].usergroup].ok]_vars

\* C8, amended: the cache never maps a group to the empty sequence; a resolution
\* that returns empty leaves the cache as it is; and a list-users request that
\* finds its group missing from the cache calls the platform.
C8_EmptyNeverCached ==
    [][/\ \A g \in GroupNames : cache'[g].ok => cache'[g].users # <<>>
       /\ \A w \in Workers :
            /\ ReturnsEmpty(w) => cache' = cache
            /\ (/\ ctx[w].pc = "lu_read" /\ ctx'[w].pc # "lu_read"
                /\ ~cache[ctx[w].usergroup].ok)
               => ctx'[w].pc = "lu_fetch"
            /\ (ctx[w].pc = "lu_fetch" /\ ctx'[w].pc # "lu_fetch")
               => ctx'[w].calls = ctx[w].calls + 1]_vars

\* C8: a resolution of a group returned empty after one call, the group is not
\* cached, and the next request for the group called the platform again
C8_Witness ==
    \E w1, w2 \in Workers :
        /\ w1 # w2 /\ ctx[w1].usergroup = ctx[w2].usergroup
        /\ ListDone(w1) /\ ctx[w1].users = <<>> /\ ctx[w1].calls = 1
        /\ ctx[w2].mode = "list" /\ ctx[w2].calls = 1
        /\ ~cache[ctx[w1].usergroup].ok

\* C9 as stated: an assign-reviewers request is answered 400 whenever a membership
\* call of it failed or its pull-request URL does not parse.
C9_GroupFailureIsBadRequest ==
    \A w \in Workers :
        AssignDone(w) /\ (ctx[w].failed \/ FindStringSubmatch(ctx[w].pullRequestURL) = <<>>)
            => ctx[w].status = StatusBadRequest

\* C9, amended: an assign-reviewers request is answered 400 exactly when its
\* pull-request URL does not parse, whether or not a membership call failed.
C9_BadRequestIffURLInvalid ==
    \A w \in Workers :
        AssignDone(w) =>
            (ctx[w].status = StatusBadRequest
                <=> FindStringSubmatch(ctx[w].pullRequestURL) = <<>>)

\* C9: a membership call failed and the request went on to a successful update with
\* no reviewers
C9_Witness ==
    \E w \in Workers :
        /\ AssignDone(w) /\ ctx[w].failed /\ ctx[w].status = StatusOK
        /\ ctx[w].applied /\ ctx[w].payload.reviewers = <<>>

\* C10 as stated: a list-users request is answered 500 when the membership call
\* failed and 200 with the members otherwise.
C10_UpstreamFailureIsServerError ==
    \A w \in Workers :
        ListDone(w) =>
            ctx[w].status = IF ctx[w].failed THEN StatusInternalServerError ELSE StatusOK

\* C10, amended: a list-users request is always answered 200 with a list of users,
\* the empty list when the membership call failed.
C10_ListUsersAlwaysOK ==
    \A w \in Workers :
        ListDone(w) =>
            /\ ctx[w].status = StatusOK /\ ctx[w].body = "users"
            /\ (ctx[w].failed => ctx[w].users = <<>>)

\* C10: the membership call failed and the request was answered 200 with no users
C10_Witness ==
    \E w \in Workers :
        /\ ListDone(w) /\ ctx[w].failed /\ ctx[w].calls = 1
        /\ ctx[w].status = StatusOK /\ ctx[w].users = <<>>

---------------------------------------------------------------------------
\* C11: GetUsers fails open: when its call of the membership API fails it returns
\* an empty sequence and no error, for every group name; it never returns an error.
C11_GetUsersFailsOpen ==
    (pure.fn = "getusers" /\ pure.done) =>
        /\ ~pure.err
        /\ pure.res.err => pure.out = <<>>
        /\ ~pure.res.err => pure.out = pure.res.names

\* GetUsers has returned for a failed call
C11_Witness ==
    pure.fn = "getusers" /\ pure.done /\ pure.res.err /\ pure.group = "teamX"

---------------------------------------------------------------------------
\* the positions of the first occurrence of each element of s
FirstAt(s, x) == CHOOSE i \in 1 .. Len(s) : s[i] = x /\ \A j \in 1 .. i - 1 : s[j] # x

Range(s) == {s[i] : i \in 1 .. Len(s)}

\* C13: getIntersection(target, others) is the users of target that occur in others,
\* in the order of their first occurrence in target, each at most once.
C13_IntersectionOrderedOnce ==
    (pure.fn = "intersect" /\ pure.done) =>
        /\ Range(pure.out) = Range(pure.users) \cap Range(pure.other)
        /\ \A i, j \in 1 .. Len(pure.out) :
              i < j => FirstAt(pure.users, pure.out[i]) < FirstAt(pure.users, pure.out[j])
        /\ (pure.users = <<"alice", "bob", "alice", "svc">> /\ pure.other = <<"alice", "svc">>)
              => pure.out = <<"alice", "svc">>

\* the intersection of [a, b, a, c] and [a, c] has been computed
C13_Witness ==
    /\ pure.fn = "intersect" /\ pure.done
    /\ pure.users = <<"alice", "bob", "alice", "svc">> /\ pure.other = <<"alice", "svc">>
    /\ pure.out = <<"alice", "svc">>

---------------------------------------------------------------------------
\* the text holds <scheme>://.../(users|projects)/<name>/repos/<repo>/pull-requests/<digits>
WellFormed(u) ==
    /\ u.shape = "full"
    /\ u.scheme \in {"http:", "https:"}
    /\ u.disc \in {"users", "projects"}
    /\ u.id \in {"42", "5"}

\* the same text with the other discriminator
Sibling(u) == [u EXCEPT !.disc = IF @ = "users" THEN "projects" ELSE "users"]

\* C15: a text holding <scheme>://.../(users|projects)/<name>/repos/<repo>/
\* pull-requests/<digits> parses to project <name>, repository <repo>, id <digits>,
\* the same whether the discriminator is users or projects; a text the pattern
\* matches nowhere gives no match (the invalid URL error).
C15_URLParsed ==
    (pure.fn = "parse" /\ pure.done) =>
        IF WellFormed(pure.url)
        THEN /\ Len(pure.out) = 6
             /\ pure.out[4] = pure.url.project
             /\ pure.out[5] = pure.url.repository
             /\ pure.out[6] = pure.url.id
             /\ SubSeq(FindStringSubmatch(URLText(Sibling(pure.url))), 4, 6)
                    = SubSeq(pure.out, 4, 6)
        ELSE pure.out = <<>>

\* a URL of a personal repository, inside a longer text, has been parsed
C15_Witness ==
    /\ pure.fn = "parse" /\ pure.done
    /\ pure.url.disc = "users" /\ pure.url.lead # <<>> /\ pure.url.trail # <<>>
    /\ Len(pure.out) = 6 /\ pure.out[4] = "~bob" /\ pure.out[6] = "5"

---------------------------------------------------------------------------
\* C12: an assign-reviewers request is answered 200 only if the update of the pull
\* request returned without error; if the read of the pull request fails (no update
\* is sent then) or the update fails, the answer is 500.
C12_OKOnlyAfterUpdate ==
    \A w \in Workers :
        AssignDone(w) =>
            /\ ctx[w].status = StatusOK => (ctx[w].puts = 1 /\ ctx[w].applied)
            /\ (ctx[w].gets = 1 /\ ctx[w].puts = 0) =>
                    ctx[w].status = StatusInternalServerError
            /\ (ctx[w].puts = 1 /\ ~ctx[w].applied) =>
                    ctx[w].status = StatusInternalServerError

\* one request answered 200 after its update, another answered 500 after its read failed
C12_Witness ==
    \E w1, w2 \in Workers :
        /\ AssignDone(w1) /\ ctx[w1].status = StatusOK /\ ctx[w1].applied
        /\ AssignDone(w2) /\ ctx[w2].gets = 1 /\ ctx[w2].puts = 0
        /\ ctx[w2].status = StatusInternalServerError

---------------------------------------------------------------------------
\* the handler has the candidates: GetUsersIntersection has returned
PastGroups(w) == ctx[w].mode = "assign" /\ ctx[w].pc \in {"ar_getinfo", "ar_put", "done"}

\* C14: the intersection with an empty sequence is empty for every target, so an
\* assign-reviewers request has no candidates when no intersect group is configured
\* or every intersect group resolves to no members.
C14_NoIntersectNoCandidates ==
    \A w \in Workers :
        /\ (PastGroups(w) /\ config.intersect = <<>>) => ctx[w].users = <<>>
        /\ (PastGroups(w) /\ ctx[w].pc # "done"
                /\ \A k \in 2 .. Len(ctx[w].answers) : ctx[w].answers[k] = <<>>)
              => ctx[w].users = <<>>

\* no intersect group is configured, the target group has members, and the update
\* is about to be sent without candidates
C14_Witness ==
    \E w \in Workers :
        /\ ctx[w].pc = "ar_put" /\ config.intersect = <<>>
        /\ ctx[w].targetUsers = <<"alice", "bob", "svc">>
        /\ ctx[w].users = <<>>

---------------------------------------------------------------------------
\* C16: within one assign-reviewers request the membership calls (the target group,
\* then the intersect groups in configuration order) come before the URL is parsed,
\* the read of the pull request comes before its update, no read or update follows
\* a URL that does not parse, and no update follows a failed read.
C16_CallOrder ==
    \A w \in Workers :
        LET log == ctx[w].log
            groups == <<ctx[w].usergroup>> \o config.intersect
            n == Len(groups)
        IN  /\ Len(log) <= n + 3
            /\ \A k \in 1 .. Len(log) :
                  /\ k <= n => log[k] = groups[k]
                  /\ k = n + 1 => log[k] \in {"parse", "parse failed"}
                  /\ k = n + 2 => (log[k] \in {"get", "get failed"} /\ log[k - 1] = "parse")
                  /\ k = n + 3 => (log[k] \in {"put", "put failed"} /\ log[k - 1] = "get")

\* one request went through to the update, another stopped at a URL that does not parse
C16_Witness ==
    \E w1, w2 \in Workers :
        /\ AssignDone(w1)
        /\ ctx[w1].log = <<"teamX", "snobs", "leads", "parse", "get", "put">>
        /\ AssignDone(w2)
        /\ ctx[w2].log = <<"a", "snobs", "leads", "parse failed">>
        /\ ctx[w2].gets = 0 /\ ctx[w2].puts = 0

---------------------------------------------------------------------------
\* users are the members of the target group (the first answer) that are members of
\* at least one intersect group (the other answers), in the target's order, none twice
UnionCandidates(users, answers) ==
    /\ Range(users) =
            {u \in Range(answers[1]) : \E k \in 2 .. Len(answers) : u \in Range(answers[k])}
    /\ \A i, j \in 1 .. Len(users) :
            i < j => FirstAt(answers[1], users[i]) < FirstAt(answers[1], users[j])

\* C17: the intersect groups are united: a member of the target group is a candidate
\* if and only if it is a member of at least one configured intersect group, not
\* of all of them; the candidates keep the target's order, without duplicates.
C17_UnionOfIntersectGroups ==
    [][\A w \in Workers :
          (ctx[w].pc = "ar_intersect" /\ ctx[w].i > Len(config.intersect)
              /\ ctx'[w].pc # "ar_intersect")
            => UnionCandidates(ctx'[w].users, ctx[w].answers)]_vars

\* alice and bob are members of the first intersect group only, and are candidates
C17_Witness ==
    \E w \in Workers :
        /\ ctx[w].pc = "ar_getinfo"
        /\ ctx[w].answers = << <<"alice", "bob", "svc">>, <<"bob", "alice">>, <<>> >>
        /\ ctx[w].users = <<"alice", "bob">>

---------------------------------------------------------------------------
---------------------------------------------------------------------------
\* C19: every request gets one response with status 200, 400 or 500, and the server
\* stays able to serve: no request is fatal to the process.
C19_AnsweredAndNeverFatal ==
    /\ ~crashed
    /\ \A w \in Workers :
          ctx[w].pc = "done" =>
              (ctx[w].wroteHeader /\ ctx[w].status \in
                    {StatusOK, StatusBadRequest, StatusInternalServerError})

====
